---- MODULE Spec2Model ----
(***************************************************************************)
(* express-mcp-playground: the chat route (app/api/express-mcp/route.ts,   *)
(* POST) that translates the provider's raw event stream into "data: ..."  *)
(* frames, and the page (app/page.tsx, handleSubmit) that decodes them.    *)
(*                                                                         *)
(* Strings that the code concatenates or parses are sequences of tokens:   *)
(* a partial_json fragment is a sequence of JSON tokens, a response body   *)
(* is a sequence of wire symbols.  A read boundary or a fragment boundary  *)
(* falls between two tokens.                                               *)
(***************************************************************************)
EXTENDS Integers, Sequences, FiniteSets, TLC

\* ------------------------------------------------------------------ bounds
\* Raw provider events consumed by one request.
MaxEvents == 4

\* ------------------------------------------------------------ JSON (tokens)
\* Insignificant whitespace between tokens.
WS == " "

\* JSON.parse skips whitespace between tokens.
Strip(s) == SelectSeq(s, LAMBDA t : t # WS)

\* The JSON texts JSON.parse accepts, over the tokens of the model:
\* a number, a string, null, the empty object, an object with the key "q".
RECURSIVE IsJsonValue(_)
IsJsonValue(s) ==
    \/ s = <<"1">>
    \/ s = <<"\"x\"">>
    \/ s = <<"null">>
    \/ s = <<"{", "}">>
    \/ /\ Len(s) >= 4
       /\ s[1] = "{"
       /\ s[2] = "\"q\":"
       /\ s[Len(s)] = "}"
       /\ IsJsonValue(SubSeq(s, 3, Len(s) - 1))

\* JSON.parse(text) throws a SyntaxError unless this holds.
JsonParses(text) == IsJsonValue(Strip(text))

\* Mutant of JsonParse: every text parses to the empty object.
JsonParseEmpty(text) == <<"{", "}">>

\* The value JSON.parse(text) returns, written as JSON.stringify prints it.
JsonParse(text) == Strip(text)

\* {} and { raw: <string> } as JSON.stringify prints them.
EmptyObject == <<"{", "}">>
RawObject(str) == <<"{", "\"raw\":", "\"">> \o str \o <<"\"", "}">>

\* A JS value is an object (not null, not an array) iff its text opens a brace.
IsObject(v) == Len(v) >= 1 /\ v[1] = "{"

\* ----------------------------------------------------------- raw events
\* An event of the provider stream; fields an event lacks are "" / <<>>.
RawEvent(type, btype, name, id, dtype, text, pjson) ==
    [type |-> type, btype |-> btype, name |-> name, id |-> id,
     dtype |-> dtype, text |-> text, partial_json |-> pjson]

BlockStart(btype, name, id) ==
    RawEvent("content_block_start", btype, name, id, "", "", <<>>)
TextDelta(text) ==
    RawEvent("content_block_delta", "", "", "", "text_delta", text, <<>>)
JsonDelta(pjson) ==
    RawEvent("content_block_delta", "", "", "", "input_json_delta", "", pjson)
BlockStop == RawEvent("content_block_stop", "", "", "", "", "", <<>>)
MessageStopEv == RawEvent("message_stop", "", "", "", "", "", <<>>)
PingEv == RawEvent("ping", "", "", "", "", "", <<>>)

\* The content_block_start events the provider may send (name and id optional).
StartEvents ==
    { BlockStart("text", "", ""),
      BlockStart("tool_use", "search", "t1"),
      BlockStart("mcp_tool_use", "fetch", ""),
      BlockStart("tool_use", "", "t1") }

\* The partial_json fragments of the model: `{`, ` }`, `1`, `{"q":"x"}`.
Fragments ==
    { <<"{">>, <<WS, "}">>, <<"1">>, <<"{", "\"q\":", "\"x\"", "}">> }

\* The content_block_delta events the provider may send.
DeltaEvents ==
    { TextDelta(t) : t \in {"", "a", "b"} } \cup { JsonDelta(f) : f \in Fragments }

\* One conversation turn of the provider: a tool block whose input arrives in
\* one fragment, then the answer text, then the end of the message.
Script ==
    << BlockStart("tool_use", "search", "t1"),
       JsonDelta(<<"{", "\"q\":", "\"x\"", "}">>),
       BlockStop,
       TextDelta("Found it"),
       MessageStopEv >>
ScriptStarts == { Script[1] }
ScriptDeltas == { Script[2], Script[4] }

\* What the raw iterator throws: an Error with a message, or a non-Error value.
Thrown == { [isError |-> TRUE, message |-> "overloaded"],
            [isError |-> FALSE, message |-> ""] }

\* The request bodies of the model.
Bodies == { "malformed", "missing", "empty", "nonarray", "valid" }

\* ------------------------------------------------------ downstream frames
Frame(type, name, id, content, input, error) ==
    [type |-> type, name |-> name, id |-> id, content |-> content,
     input |-> input, error |-> error]

TextFrame(content) == Frame("text", "", "", content, <<>>, "")
ToolStartFrame(name, id) == Frame("tool_start", name, id, "", <<>>, "")
ToolCompleteFrame(name, id, input) == Frame("tool_complete", name, id, "", input, "")
DoneFrame == Frame("done", "", "", "", <<>>, "")
ErrorFrame(msg) == Frame("error", "", "", "", <<>>, msg)

\* ------------------------------------------------------------------ state
VARIABLES
    body,              \* the request body POST received ("none" before the request)
    response,          \* what POST returned: "none", "json400", "json500", "stream200"
    upstream,          \* the provider request: "none", "open", "ended", "failed", "aborted"
    pc,                \* start(): "idle", "await", "loop", "return", "closed", "rejected"
    raw,               \* the raw events the for-await loop has received, in order
    out,               \* the frames passed to controller.enqueue, in order
    closed,            \* controller.close() was called
    cancelled,         \* the consumer cancelled the response stream
    currentToolName,
    currentToolInput,
    currentToolId

\* The page (handleSubmit).
VARIABLES
    input,             \* the text field
    isLoading,
    messages,          \* the conversation shown: [role, content, toolCalls]
    cpc,               \* handleSubmit: "idle", "fetch", "read", "done"
    sent,              \* the response body of the request, whole
    wire,              \* the part of the body no read has returned yet
    reads,             \* reader.read() calls that returned a chunk
    currentContent,
    currentToolCalls,
    decoded            \* the frames the decode loop parsed and dispatched, in order

serverVars == <<body, response, upstream, pc, raw, out, closed, cancelled,
                currentToolName, currentToolInput, currentToolId>>
clientVars == <<input, isLoading, messages, cpc, sent, wire, reads,
                currentContent, currentToolCalls, decoded>>
vars == <<serverVars, clientVars>>

Init ==
    /\ body = "none"
    /\ response = "none"
    /\ upstream = "none"
    /\ pc = "idle"
    /\ raw = <<>>
    /\ out = <<>>
    /\ closed = FALSE
    /\ cancelled = FALSE
    /\ currentToolName = ""
    /\ currentToolInput = <<>>
    /\ currentToolId = ""
    /\ input = ""
    /\ isLoading = FALSE
    /\ messages = <<>>
    /\ cpc = "idle"
    /\ sent = <<>>
    /\ wire = <<>>
    /\ reads = 0
    /\ currentContent = <<>>
    /\ currentToolCalls = <<>>
    /\ decoded = <<>>

\* ---------------------------------------------------- POST: before the stream
\* Mutant of ValidationFails: only a missing `messages` is rejected.
ValidationFailsMissingOnly(b) == b = "missing"

\* `!messages || messages.length === 0`
ValidationFails(b) == b \in {"missing", "empty"}

\* What POST returns for a body, up to `return new Response(stream, ...)`:
\* request.json() throws on a malformed body and messages.map on a non-array,
\* both into the outer catch; nothing after `new ReadableStream` can reach it.
ResponseFor(b) ==
    IF b = "malformed" THEN "json500"
    ELSE IF ValidationFails(b) THEN "json400"
    ELSE IF b = "nonarray" THEN "json500"
    ELSE "stream200"

\* POST(request).  The ReadableStream constructor runs start() up to its first
\* await, so client.messages.stream(...) has been called when POST returns.
POST(b) ==
    /\ pc = "idle"
    /\ response = "none"
    /\ body' = b
    /\ response' = ResponseFor(b)
    /\ IF ResponseFor(b) = "stream200"
       THEN /\ upstream' = "open"
            /\ pc' = "await"
       ELSE UNCHANGED <<upstream, pc>>
    /\ UNCHANGED <<raw, out, closed, cancelled,
                   currentToolName, currentToolInput, currentToolId>>
    /\ UNCHANGED clientVars

\* ------------------------------------------------------- start(): the catch
\* `error instanceof Error ? error.message : 'Unknown error'`
ErrorMessage(err) == IF err.isError THEN err.message ELSE "Unknown error"

\* Mutant of CatchFrames: the catch block closes without an error frame.
CatchFramesNone(err) == <<>>

\* The frames the catch block enqueues.
CatchFrames(err) == <<ErrorFrame(ErrorMessage(err))>>

\* Mutant of Enqueue: the chunks are put at the head of the queue.
EnqueueInFront(queue, frames) == frames \o queue

\* controller.enqueue(encoder.encode(data)), for each of frames in order.
Enqueue(queue, frames) == queue \o frames

\* The end of start(): the catch block's enqueue (none at the end of the try
\* block), then controller.close().  Once the consumer has cancelled the
\* stream both calls throw a TypeError: close() throws into the catch block,
\* and the catch block's enqueue throws out of start(), whose promise rejects.
EnqueueAndClose(frames) ==
    IF cancelled
    THEN /\ pc' = "rejected"
         /\ UNCHANGED <<out, closed>>
    ELSE /\ out' = Enqueue(out, frames)
         /\ closed' = TRUE
         /\ pc' = "closed"

\* catch (error) { enqueue(errorData); controller.close() }
Catch(err) ==
    /\ EnqueueAndClose(CatchFrames(err))
    /\ upstream' = "failed"
    /\ UNCHANGED <<body, response, raw, cancelled,
                   currentToolName, currentToolInput, currentToolId>>
    /\ UNCHANGED clientVars

\* `await client.messages.stream(...)` resolves: the three lets, then the loop.
StreamReady ==
    /\ pc = "await"
    /\ pc' = "loop"
    /\ currentToolName' = ""
    /\ currentToolInput' = <<>>
    /\ currentToolId' = ""
    /\ UNCHANGED <<body, response, upstream, raw, out, closed, cancelled>>
    /\ UNCHANGED clientVars

\* `await client.messages.stream(...)` throws.
StreamRejected(err) ==
    /\ pc = "await"
    /\ Catch(err)

\* ------------------------------------------------- start(): the event loop
\* The loop takes its next raw event.  The model follows a raw stream for
\* MaxEvents events, and the turn of Script to its end.
Receives(ev) ==
    /\ pc = "loop"
    /\ \/ Len(raw) < MaxEvents
       \/ /\ Len(raw) < Len(Script)
          /\ Append(raw, ev) = SubSeq(Script, 1, Len(raw) + 1)
    /\ raw' = Append(raw, ev)
    /\ UNCHANGED cancelled
    /\ UNCHANGED clientVars

\* The enqueues of one pass of the loop body.  While the consumer is attached
\* the frames are queued and the loop goes on; after a cancel the first
\* enqueue throws out of the loop body, and the for-await statement awaits the
\* iterator's return() before the catch block runs.
Writes(frames) ==
    IF frames = <<>> \/ ~cancelled
    THEN /\ out' = Enqueue(out, frames)
         /\ pc' = pc
    ELSE /\ out' = out
         /\ pc' = "return"

\* Mutant of IsToolStart: the name of the block is not looked at.
IsToolStartAnyName(block) == block.btype \in {"tool_use", "mcp_tool_use"}

\* Mutant of IsToolStart: mcp_tool_use blocks are not recognised.
IsToolStartToolUseOnly(block) ==
    /\ block.btype = "tool_use"
    /\ block.name # ""

\* `(block.type === 'tool_use' || block.type === 'mcp_tool_use') && block.name`
IsToolStart(block) ==
    /\ block.btype \in {"tool_use", "mcp_tool_use"}
    /\ block.name # ""

\* Mutant of StartInput: a tool start keeps the string accumulated so far.
StartInputKept(json) == json

\* `currentToolInput = ''` at a tool start, whatever the string held.
StartInput(json) == <<>>

\* event.type === 'content_block_start'
ContentBlockStart(ev) ==
    /\ Receives(ev)
    /\ IF IsToolStart(ev)
       THEN /\ currentToolName' = ev.name
            /\ currentToolId' = ev.id          \* block.id || ''
            /\ currentToolInput' = StartInput(currentToolInput)
            /\ Writes(<<ToolStartFrame(ev.name, ev.id)>>)
       ELSE /\ UNCHANGED <<currentToolName, currentToolId, currentToolInput>>
            /\ Writes(<<>>)
    /\ UNCHANGED <<body, response, upstream, closed>>

\* Mutant of TextDeltaFrames: the fragment is enqueued twice.
TextDeltaFramesTwice(delta) ==
    IF delta.dtype = "text_delta" /\ delta.text # ""
    THEN <<TextFrame(delta.text), TextFrame(delta.text)>>
    ELSE <<>>

\* `delta.type === 'text_delta' && delta.text`: the frames a delta emits.
TextDeltaFrames(delta) ==
    IF delta.dtype = "text_delta" /\ delta.text # ""
    THEN <<TextFrame(delta.text)>>
    ELSE <<>>

\* Mutant of AppendFragment: the fragment is put in front of the string.
AppendFragmentInFront(json, delta) ==
    IF delta.dtype = "input_json_delta" /\ delta.partial_json # <<>>
    THEN delta.partial_json \o json
    ELSE json

\* `else if (delta.type === 'input_json_delta' && delta.partial_json)
\*     currentToolInput += delta.partial_json`
AppendFragment(json, delta) ==
    IF /\ ~(delta.dtype = "text_delta" /\ delta.text # "")
       /\ delta.dtype = "input_json_delta"
       /\ delta.partial_json # <<>>
    THEN json \o delta.partial_json
    ELSE json

\* event.type === 'content_block_delta'
ContentBlockDelta(ev) ==
    /\ Receives(ev)
    /\ Writes(TextDeltaFrames(ev))
    /\ currentToolInput' = AppendFragment(currentToolInput, ev)
    /\ UNCHANGED <<body, response, upstream, closed, currentToolName, currentToolId>>

\* Mutant of ParsedInput: an unparsable string is discarded.
ParsedInputDiscards(json) ==
    IF JsonParses(json) THEN JsonParse(json) ELSE EmptyObject

\* try { parsedInput = JSON.parse(currentToolInput) }
\* catch { parsedInput = currentToolInput ? { raw: currentToolInput } : {} }
ParsedInput(json) ==
    IF JsonParses(json) THEN JsonParse(json)
    ELSE IF json # <<>> THEN RawObject(json)
    ELSE EmptyObject

\* Mutant of ToolIsOpen: every content_block_stop completes a tool.
ToolIsOpenAlways(name) == TRUE

\* `if (currentToolName)` on content_block_stop
ToolIsOpen(name) == name # ""

\* event.type === 'content_block_stop'
ContentBlockStop ==
    /\ Receives(BlockStop)
    /\ IF ToolIsOpen(currentToolName)
       THEN /\ Writes(<<ToolCompleteFrame(currentToolName, currentToolId,
                                            ParsedInput(currentToolInput))>>)
            /\ IF cancelled    \* the enqueue threw: the resets are not reached
               THEN UNCHANGED <<currentToolName, currentToolInput, currentToolId>>
               ELSE /\ currentToolName' = ""
                    /\ currentToolInput' = <<>>
                    /\ currentToolId' = ""
       ELSE /\ Writes(<<>>)
            /\ UNCHANGED <<currentToolName, currentToolInput, currentToolId>>
    /\ UNCHANGED <<body, response, upstream, closed>>

\* event.type === 'message_stop': the frame is enqueued and the loop goes on.
MessageStop ==
    /\ Receives(MessageStopEv)
    /\ Writes(<<DoneFrame>>)
    /\ UNCHANGED <<body, response, upstream, closed,
                   currentToolName, currentToolInput, currentToolId>>

\* Any other event type falls through the if/else chain.
OtherEvent ==
    /\ Receives(PingEv)
    /\ UNCHANGED <<body, response, upstream, pc, out, closed,
                   currentToolName, currentToolInput, currentToolId>>

\* The raw stream ends: the loop exits and controller.close() runs.  After a
\* cancel close() throws a TypeError into the catch block.
RawEnd ==
    /\ pc = "loop"
    /\ EnqueueAndClose(<<>>)
    /\ upstream' = "ended"
    /\ UNCHANGED <<body, response, raw, cancelled,
                   currentToolName, currentToolInput, currentToolId>>
    /\ UNCHANGED clientVars

\* The raw iterator throws inside the loop.
RawThrow(err) ==
    /\ pc = "loop"
    /\ Catch(err)

Next ==
    \/ \E b \in Bodies : POST(b)
    \/ StreamReady
    \/ \E err \in Thrown : StreamRejected(err)
    \/ \E ev \in StartEvents : ContentBlockStart(ev)
    \/ \E ev \in DeltaEvents : ContentBlockDelta(ev)
    \/ ContentBlockStop
    \/ MessageStop
    \/ OtherEvent
    \/ RawEnd
    \/ \E err \in Thrown : RawThrow(err)

Spec == Init /\ [][Next]_vars

\* The same route, with the provider sending the events of Script in any order.
NextScript ==
    \/ \E b \in Bodies : POST(b)
    \/ StreamReady
    \/ \E err \in Thrown : StreamRejected(err)
    \/ \E ev \in ScriptStarts : ContentBlockStart(ev)
    \/ \E ev \in ScriptDeltas : ContentBlockDelta(ev)
    \/ ContentBlockStop
    \/ MessageStop
    \/ OtherEvent
    \/ RawEnd
    \/ \E err \in Thrown : RawThrow(err)

SpecScript == Init /\ [][NextScript]_vars

\* --------------------------------------------------- the consumer goes away
\* The client disconnects and the response stream is cancelled.  The
\* underlying source passed to `new ReadableStream` has start() only, and the
\* route passes no abort signal to the provider call: no code of the route
\* runs on a cancel.
Cancel ==
    /\ response = "stream200"
    /\ pc \in {"await", "loop"}
    /\ ~cancelled
    /\ cancelled' = TRUE
    /\ UNCHANGED <<body, response, upstream, pc, raw, out, closed,
                   currentToolName, currentToolInput, currentToolId>>
    /\ UNCHANGED clientVars

\* An enqueue threw inside the loop body: the for-await statement calls the
\* iterator's return(), taken here to abort the provider request, and then the
\* catch block runs, where the enqueue of the error frame throws again.
IteratorReturn ==
    /\ pc = "return"
    /\ upstream' = "aborted"
    /\ pc' = "rejected"
    /\ UNCHANGED <<body, response, raw, out, closed, cancelled,
                   currentToolName, currentToolInput, currentToolId>>
    /\ UNCHANGED clientVars

\* The route with a consumer that may go away, over the events of Script.
NextCancel ==
    \/ NextScript
    \/ Cancel
    \/ IteratorReturn

SpecCancel == Init /\ [][NextCancel]_vars

\* The continuation of the failed loop body is scheduled by the runtime; the
\* provider is not bound to send a next event or to end its stream.
SpecCancelFair == SpecCancel /\ WF_vars(IteratorReturn)

\* ====================================================== the response body
\* The concatenation of a sequence of sequences.
RECURSIVE Concat(_)
Concat(seqs) == IF seqs = <<>> THEN <<>> ELSE Head(seqs) \o Concat(Tail(seqs))

\* A wire symbol: a structural symbol, or one `"key":value` member of an
\* object with its separator (v is the value: one string, or the JSON tokens
\* of `input`).
Sym(k) == [k |-> k, v |-> <<>>]
Member(k, v) == [k |-> k, v |-> v]
NL == Sym("\n")
Structural == {"\n", "da", "ta: ", "{", "}"}

\* The frame prefix 'data: ', in two symbols: a read can end inside it.
Prefix == <<Sym("da"), Sym("ta: ")>>

\* JSON.stringify of the object literal of a frame.
Stringify(f) ==
    <<Sym("{"), Member("type", <<f.type>>)>>
    \o (CASE f.type = "text" -> <<Member("content", <<f.content>>)>>
          [] f.type = "tool_start" ->
                <<Member("name", <<f.name>>), Member("id", <<f.id>>)>>
          [] f.type = "tool_complete" ->
                <<Member("name", <<f.name>>), Member("id", <<f.id>>),
                  Member("input", f.input)>>
          [] f.type = "error" -> <<Member("error", <<f.error>>)>>
          [] OTHER -> <<>>)
    \o <<Sym("}")>>

\* `data: ${JSON.stringify(...)}\n\n`
Encode(f) == Prefix \o Stringify(f) \o <<NL, NL>>

\* The bytes of a response that enqueued the frames fs.
EncodeAll(fs) == Concat([i \in 1..Len(fs) |-> Encode(fs[i])])

\* Frames in one response body of the page's model.
MaxFrames == 2

\* Frames the route can enqueue, and the bodies made of them.
ClientFrames ==
    { TextFrame("a"), TextFrame("b"),
      ToolStartFrame("search", "t1"), ToolStartFrame("fetch", ""),
      ToolCompleteFrame("search", "t1", EmptyObject),
      ToolCompleteFrame("fetch", "", <<"{", "\"q\":", "\"x\"", "}">>),
      DoneFrame, ErrorFrame("overloaded") }
ResponseBodies ==
    { EncodeAll(fs) : fs \in UNION { [1..n -> ClientFrames] : n \in 0..MaxFrames } }

\* ============================================================= handleSubmit
\* What the user may type, and input.trim().
Inputs == {" ", "hi "}
Trim(text) == CASE text = " " -> "" [] text = "hi " -> "hi" [] OTHER -> text

\* A message of the conversation.
Msg(role, content, toolCalls) ==
    [role |-> role, content |-> content, toolCalls |-> toolCalls]

\* `[...messages, userMessage]`, as held by the running handleSubmit: the
\* conversation without the assistant message it rewrites.
NewMessages == SubSeq(messages, 1, Len(messages) - 1)

\* setMessages([...newMessages, { role: 'assistant', content, toolCalls }])
Shows(content, toolCalls) == Append(NewMessages, Msg("assistant", content, toolCalls))

\* The catch block's message.
SorryText == <<"Sorry, something went wrong. Please try again.">>

\* onChange of the text field.
Type(text) ==
    /\ input' = text
    /\ UNCHANGED <<isLoading, messages, cpc, sent, wire, reads,
                   currentContent, currentToolCalls, decoded>>
    /\ UNCHANGED serverVars

\* Mutant of SubmitRefused: the guard does not look at isLoading.
SubmitRefusedBlankOnly == Trim(input) = ""

\* `if (!input.trim() || isLoading) return`
SubmitRefused == Trim(input) = "" \/ isLoading

\* handleSubmit past its guard, up to the fetch: the user message and the
\* assistant placeholder are appended to the conversation.
StartsRequest ==
    /\ ~SubmitRefused
    /\ messages' = messages \o <<Msg("user", <<Trim(input)>>, <<>>),
                                  Msg("assistant", <<>>, <<>>)>>
    /\ input' = ""
    /\ isLoading' = TRUE
    /\ cpc' = "fetch"
    /\ decoded' = <<>>
    /\ UNCHANGED <<sent, wire, reads, currentContent, currentToolCalls>>
    /\ UNCHANGED serverVars

\* The first chat of the page.  Nothing but the guard of handleSubmit keeps a
\* submit from starting while the request is in flight.
Submit ==
    /\ cpc \notin {"done", "failed"}
    /\ StartsRequest

\* handleSubmit returns at its guard.
SubmitIgnored ==
    /\ SubmitRefused
    /\ UNCHANGED vars

\* catch { setMessages(sorry) } finally { setIsLoading(false) }
Fails ==
    /\ messages' = Shows(SorryText, <<>>)
    /\ isLoading' = FALSE
    /\ cpc' = "failed"
    /\ UNCHANGED <<input, sent, wire, reads, currentContent, currentToolCalls, decoded>>
    /\ UNCHANGED serverVars

\* fetch rejects.
FetchThrows == cpc = "fetch" /\ Fails

\* `if (!response.ok) throw new Error('Failed to get response')`
FetchNotOk == cpc = "fetch" /\ Fails

\* fetch resolves with an ok response whose body will be b.
FetchOk(b) ==
    /\ cpc = "fetch"
    /\ cpc' = "read"
    /\ sent' = b
    /\ wire' = b
    /\ reads' = 0
    /\ currentContent' = <<>>
    /\ currentToolCalls' = <<>>
    /\ UNCHANGED <<input, isLoading, messages, decoded>>
    /\ UNCHANGED serverVars

\* chunk.split('\n')
RECURSIVE Split(_)
Split(chunk) ==
    IF \A i \in 1..Len(chunk) : chunk[i] # NL THEN <<chunk>>
    ELSE LET i == CHOOSE i \in 1..Len(chunk) :
                      chunk[i] = NL /\ \A j \in 1..(i - 1) : chunk[j] # NL
         IN  <<SubSeq(chunk, 1, i - 1)>> \o Split(SubSeq(chunk, i + 1, Len(chunk)))

\* line.startsWith('data: ')
HasPrefix(line) == Len(line) >= 2 /\ SubSeq(line, 1, 2) = Prefix

\* line.slice(6)
Payload(line) == SubSeq(line, 3, Len(line))

\* Mutant of ParsesAsObject: a text that opens a brace is taken for an object.
ParsesAsObjectLoose(text) ==
    /\ Len(text) >= 2
    /\ text[1] = Sym("{")

\* JSON.parse(text) returns: over the wire symbols, text is a whole object.
ParsesAsObject(text) ==
    /\ Len(text) >= 2
    /\ text[1] = Sym("{")
    /\ text[Len(text)] = Sym("}")
    /\ \A i \in 2..(Len(text) - 1) : text[i].k \notin Structural

\* data[key] of the parsed object (<<>> when the member is absent).
Get(text, key) ==
    IF \E i \in 1..Len(text) : text[i].k = key
    THEN text[CHOOSE i \in 1..Len(text) : text[i].k = key].v
    ELSE <<>>
Scalar(v) == IF v = <<>> THEN "" ELSE v[1]

\* JSON.parse(line.slice(6))
Data(text) ==
    Frame(Scalar(Get(text, "type")), Scalar(Get(text, "name")),
          Scalar(Get(text, "id")), Scalar(Get(text, "content")),
          Get(text, "input"), Scalar(Get(text, "error")))

\* A tool call of the assistant message.
ToolCall(name, id, status, inp) ==
    [name |-> name, id |-> id, status |-> status, input |-> inp]

\* Mutant of Completed: entries are matched by id only.
CompletedByIdOnly(toolCalls, data) ==
    [i \in 1..Len(toolCalls) |->
        LET tc == toolCalls[i]
        IN  IF data.id # "" /\ tc.id = data.id
            THEN ToolCall(tc.name, tc.id, "complete", data.input)
            ELSE tc]

\* The map of the tool_complete branch.
Completed(toolCalls, data) ==
    [i \in 1..Len(toolCalls) |->
        LET tc == toolCalls[i]
        IN  IF data.id # "" /\ tc.id = data.id
            THEN ToolCall(tc.name, tc.id, "complete", data.input)
            ELSE IF data.id = "" /\ tc.name = data.name /\ tc.status = "running"
            THEN ToolCall(tc.name, tc.id, "complete", data.input)
            ELSE tc]

\* The branches on data.type.  st holds the locals and state the decode loop
\* writes: content, toolCalls, shown (the messages state), decoded.
Dispatch(st, data) ==
    LET got == [st EXCEPT !.decoded = Append(@, data)]
    IN  CASE data.type = "text" ->
               LET c == IF data.content = "" THEN st.content
                        ELSE Append(st.content, data.content)
               IN  [got EXCEPT !.content = c,
                               !.shown = Msg("assistant", c, st.toolCalls)]
          [] data.type = "tool_start" ->
               LET toolId == IF data.id # "" THEN data.id
                             ELSE "tool-" \o ToString(Len(st.toolCalls))
                   tcs == Append(st.toolCalls,
                                 ToolCall(data.name, toolId, "running", <<>>))
               IN  [got EXCEPT !.toolCalls = tcs,
                               !.shown = Msg("assistant", st.content, tcs)]
          [] data.type = "tool_complete" ->
               LET tcs == Completed(st.toolCalls, data)
               IN  [got EXCEPT !.toolCalls = tcs,
                               !.shown = Msg("assistant", st.content, tcs)]
          [] data.type = "error" ->
               [got EXCEPT !.shown = Msg("assistant", <<"Error: ", data.error>>, <<>>)]
          [] OTHER -> got

\* One line of a chunk: a line without the prefix is skipped, a line whose
\* payload does not parse is dropped by the empty catch.  So is a payload that
\* parses to null (`data.type` throws into the same catch), and a payload that
\* parses to a number takes no branch.
ProcessLine(st, line) ==
    IF HasPrefix(line) /\ ParsesAsObject(Payload(line))
    THEN Dispatch(st, Data(Payload(line)))
    ELSE st

\* for (const line of lines)
RECURSIVE ProcessLines(_, _)
ProcessLines(st, lines) ==
    IF lines = <<>> THEN st
    ELSE ProcessLines(ProcessLine(st, Head(lines)), Tail(lines))

\* The decode loop's state before the first read.
FreshDecode(shown) ==
    [content |-> <<>>, toolCalls |-> <<>>, shown |-> shown, decoded |-> <<>>]

\* reader.read() returns the next n symbols of the body as one chunk, and the
\* loop body decodes it.
Read(n) ==
    /\ cpc = "read"
    /\ n \in 1..Len(wire)
    /\ LET chunk == SubSeq(wire, 1, n)
           st == ProcessLines([content |-> currentContent,
                               toolCalls |-> currentToolCalls,
                               shown |-> messages[Len(messages)],
                               decoded |-> decoded],
                              Split(chunk))
       IN  /\ currentContent' = st.content
           /\ currentToolCalls' = st.toolCalls
           /\ messages' = Append(NewMessages, st.shown)
           /\ decoded' = st.decoded
    /\ wire' = SubSeq(wire, n + 1, Len(wire))
    /\ reads' = reads + 1
    /\ UNCHANGED <<input, isLoading, cpc, sent>>
    /\ UNCHANGED serverVars

\* reader.read() returns done: break, then finally.
ReadEnd ==
    /\ cpc = "read"
    /\ wire = <<>>
    /\ isLoading' = FALSE
    /\ cpc' = "done"
    /\ UNCHANGED <<input, messages, sent, wire, reads,
                   currentContent, currentToolCalls, decoded>>
    /\ UNCHANGED serverVars

\* reader.read() rejects.
ReadThrows == cpc = "read" /\ Fails

NextClient ==
    \/ \E text \in Inputs : Type(text)
    \/ Submit
    \/ SubmitIgnored
    \/ FetchThrows
    \/ FetchNotOk
    \/ \E b \in ResponseBodies : FetchOk(b)
    \/ \E n \in 1..Len(wire) : Read(n)
    \/ ReadEnd
    \/ ReadThrows

SpecClient == Init /\ [][NextClient]_vars

\* ------------------------------------------------- bodies of tool frames
\* The tool frames of a block with an id and of a block without.
ToolFrames ==
    { ToolStartFrame("search", "t1"), ToolStartFrame("fetch", ""),
      ToolCompleteFrame("search", "t1", EmptyObject),
      ToolCompleteFrame("fetch", "", <<"{", "\"q\":", "\"x\"", "}">>) }
ToolBodies ==
    { EncodeAll(fs) : fs \in UNION { [1..n -> ToolFrames] : n \in 0..MaxFrames } }

\* The page reading a body of tool frames.
NextTools ==
    \/ \E text \in Inputs : Type(text)
    \/ Submit
    \/ SubmitIgnored
    \/ FetchThrows
    \/ FetchNotOk
    \/ \E b \in ToolBodies : FetchOk(b)
    \/ \E n \in 1..Len(wire) : Read(n)
    \/ ReadEnd
    \/ ReadThrows

SpecTools == Init /\ [][NextTools]_vars

\* ------------------------------------------------------ one chat after another
\* Chats followed on one page.
MaxChats == 2

\* A body with no frame, with a text frame, with an error frame.
ChatBodies ==
    { EncodeAll(<<>>), EncodeAll(<<TextFrame("a")>>),
      EncodeAll(<<ErrorFrame("overloaded")>>) }

\* handleSubmit called again once the chat before it has ended.
SubmitAgain ==
    /\ cpc \in {"done", "failed"}
    /\ Len(messages) < 2 * MaxChats
    /\ StartsRequest

\* The fetch settles, and a pending reader.read() settles.
FetchSettles == FetchThrows \/ FetchNotOk \/ \E b \in ChatBodies : FetchOk(b)
ReadSettles == (\E n \in 1..Len(wire) : Read(n)) \/ ReadEnd \/ ReadThrows

NextChats ==
    \/ \E text \in Inputs : Type(text)
    \/ Submit
    \/ SubmitAgain
    \/ SubmitIgnored
    \/ FetchThrows
    \/ FetchNotOk
    \/ \E b \in ChatBodies : FetchOk(b)
    \/ \E n \in 1..Len(wire) : Read(n)
    \/ ReadEnd
    \/ ReadThrows

SpecChats == Init /\ [][NextChats]_vars

\* Every request ends: the fetch promise settles, and each read of the body
\* returns a chunk, returns done or rejects.
SpecChatsFair == SpecChats /\ WF_vars(FetchSettles) /\ WF_vars(ReadSettles)

\* ------------------------------------------------ bodies with broken lines
\* Lines a body may hold besides frames: JSON that is not an object (a number,
\* null), an object cut short, and text that is not JSON.
BrokenLines ==
    { Prefix \o <<Sym("1"), NL, NL>>,
      Prefix \o <<Sym("null"), NL, NL>>,
      Prefix \o <<Sym("{"), Member("type", <<"text">>), NL, NL>>,
      Prefix \o <<Sym("oops"), NL, NL>> }
GarbledFrames == { TextFrame("a") }
GarbledLines == BrokenLines \cup { Encode(f) : f \in GarbledFrames }
GarbledBodies ==
    { Concat(ls) : ls \in UNION { [1..n -> GarbledLines] : n \in 0..MaxFrames } }

\* The page reading a body that holds broken lines.
NextGarbled ==
    \/ \E text \in Inputs : Type(text)
    \/ Submit
    \/ SubmitIgnored
    \/ FetchThrows
    \/ FetchNotOk
    \/ \E b \in GarbledBodies : FetchOk(b)
    \/ \E n \in 1..Len(wire) : Read(n)
    \/ ReadEnd
    \/ ReadThrows

SpecGarbled == Init /\ [][NextGarbled]_vars

\* ===================================================== reading the two logs
IsTextDelta(ev) == ev.type = "content_block_delta" /\ ev.dtype = "text_delta"
IsJsonDelta(ev) == ev.type = "content_block_delta" /\ ev.dtype = "input_json_delta"
IsBlockStart(ev) == ev.type = "content_block_start"
IsToolTypeStart(ev) == IsBlockStart(ev) /\ ev.btype \in {"tool_use", "mcp_tool_use"}
IsNamedToolStart(ev) == IsToolTypeStart(ev) /\ ev.name # ""

Last(seq) == seq[Len(seq)]
Indices(seq, Test(_)) == { i \in 1..Len(seq) : Test(seq[i]) }
Count(seq, Test(_)) == Cardinality(Indices(seq, Test))
FramesOfType(seq, type) == Indices(seq, LAMBDA f : f.type = type)

\* The concatenation of a sequence of strings, as its non-empty pieces in order.
RECURSIVE Pieces(_)
Pieces(strs) ==
    IF strs = <<>> THEN <<>>
    ELSE (IF Head(strs) = "" THEN <<>> ELSE <<Head(strs)>>) \o Pieces(Tail(strs))

\* The text of the text frames emitted, and of the text deltas received.
EmittedText(o) ==
    LET fs == SelectSeq(o, LAMBDA f : f.type = "text")
    IN  Pieces([i \in 1..Len(fs) |-> fs[i].content])
ReceivedText(r) ==
    LET ds == SelectSeq(r, IsTextDelta)
    IN  Pieces([i \in 1..Len(ds) |-> ds[i].text])

\* At most one block is open at a time: a stop lies between any two starts.
ValidRaw(r) ==
    \A i, j \in 1..Len(r) :
        (i < j /\ IsBlockStart(r[i]) /\ IsBlockStart(r[j]))
            => \E k \in (i + 1)..(j - 1) : r[k].type = "content_block_stop"

\* The tool block the frames leave open: the last tool_start, when no
\* tool_complete follows it (0 when there is none).
LastToolStart(o) ==
    LET starts == FramesOfType(o, "tool_start")
    IN  IF starts = {} THEN 0
        ELSE CHOOSE i \in starts : \A j \in starts : j <= i
OpenTool(o) ==
    LET start == LastToolStart(o)
    IN  IF /\ start > 0
           /\ \A k \in (start + 1)..Len(o) : o[k].type # "tool_complete"
        THEN start ELSE 0

\* The partial_json received since the last content_block_start that opened a
\* tool, concatenated in arrival order.
LastNamedStart(r) ==
    IF Indices(r, IsNamedToolStart) = {} THEN 0
    ELSE CHOOSE i \in Indices(r, IsNamedToolStart) :
             \A j \in Indices(r, IsNamedToolStart) : j <= i
FragmentsSinceStart(r) ==
    LET tl == SubSeq(r, LastNamedStart(r) + 1, Len(r))
        ds == SelectSeq(tl, IsJsonDelta)
    IN  Concat([i \in 1..Len(ds) |-> ds[i].partial_json])

\* This step handles the raw event ev.
Handles(ev) == Len(raw') = Len(raw) + 1 /\ Last(raw') = ev
HandlesSome(Test(_)) == Len(raw') = Len(raw) + 1 /\ Test(Last(raw'))

\* This step enqueues exactly the frame f.
Enqueues(f) == out' = Append(out, f)

\* ================================================================== claims
\* C1 (as claimed): `done` is terminal -- once a done frame has been enqueued
\* no further frame of any type is enqueued for the request.
C1_DoneIsLastFrame ==
    \A i \in FramesOfType(out, "done") : i = Len(out)

\* C2 (as claimed): a well-formed frame stream delivered in two reads, split
\* at any offset, is decoded into the same event sequence as the same stream
\* delivered in one read.
DecodedInOneRead(b) ==
    ProcessLines(FreshDecode(Msg("assistant", <<>>, <<>>)), Split(b)).decoded
C2_TwoReadsDecodeAsOne ==
    (cpc = "done" /\ reads <= 2) => decoded = DecodedInOneRead(sent)

\* C3: the text of the text frames, concatenated in emission order, equals
\* the text of the text_delta events concatenated in arrival order, whether
\* or not a tool block is open when a fragment arrives.
C3_TextForwardedInOrder == EmittedText(out) = ReceivedText(raw)

\* C3 witness: two different fragments were forwarded, the last one while a
\* tool block was open.
C3_Witness ==
    /\ Len(raw) >= 3
    /\ IsTextDelta(Last(raw)) /\ Last(raw).text = "b"
    /\ currentToolName # ""
    /\ EmittedText(out) = <<"a", "b">>

\* C4 (as claimed): on valid raw sequences the tool_start frames are as many
\* as the tool-type content_block_start events, and per id the tool_complete
\* frames are never more than the tool_start frames.
CompletesWithinStarts(o) ==
    \A id \in {"", "t1"} :
        Count(o, LAMBDA f : f.type = "tool_complete" /\ f.id = id)
            <= Count(o, LAMBDA f : f.type = "tool_start" /\ f.id = id)
C4_StartsEqualToolTypeStarts ==
    ValidRaw(raw) =>
        /\ Cardinality(FramesOfType(out, "tool_start")) = Count(raw, IsToolTypeStart)
        /\ CompletesWithinStarts(out)

\* C4 (amended): on valid raw sequences the tool_start frames are as many as
\* the tool-type content_block_start events that carry a name, and per id the
\* tool_complete frames are never more than the tool_start frames.
C4_StartsEqualNamedToolStarts ==
    ValidRaw(raw) =>
        /\ Cardinality(FramesOfType(out, "tool_start")) = Count(raw, IsNamedToolStart)
        /\ CompletesWithinStarts(out)

\* C4 witness: a valid sequence with a nameless tool block, two tool_start
\* frames and a tool_complete.
C4_Witness ==
    /\ ValidRaw(raw)
    /\ Count(raw, IsToolTypeStart) > Count(raw, IsNamedToolStart)
    /\ Cardinality(FramesOfType(out, "tool_start")) = 1
    /\ Cardinality(FramesOfType(out, "tool_complete")) = 1

\* C5: every tool_complete frame follows a tool_start frame with its id and
\* name with no other tool_complete of that id in between, and a
\* content_block_stop that closes an open tool block enqueues exactly one
\* tool_complete with the name and id of that tool_start.
CompleteHasStart(o) ==
    \A i \in FramesOfType(o, "tool_complete") :
        \E j \in FramesOfType(o, "tool_start") :
            /\ j < i
            /\ o[j].id = o[i].id
            /\ o[j].name = o[i].name
            /\ \A k \in (j + 1)..(i - 1) :
                   ~(o[k].type = "tool_complete" /\ o[k].id = o[i].id)
StopClosesOpenTool ==
    (Handles(BlockStop) /\ OpenTool(out) > 0) =>
        /\ Len(out') = Len(out) + 1
        /\ SubSeq(out', 1, Len(out)) = out
        /\ Last(out').type = "tool_complete"
        /\ Last(out').name = out[OpenTool(out)].name
        /\ Last(out').id = out[OpenTool(out)].id
C5_CompleteIffOpenStart ==
    [][CompleteHasStart(out') /\ StopClosesOpenTool]_vars

\* C5 witness: a tool was started and completed, and a second stop followed.
C5_Witness ==
    /\ Len(raw) >= 3
    /\ Last(raw) = BlockStop /\ raw[Len(raw) - 1] = BlockStop
    /\ Cardinality(FramesOfType(out, "tool_complete")) = 1

\* C6: when the raw stream fails, exactly one error frame is enqueued and the
\* stream is closed; the error frame is the last frame, nothing is enqueued
\* after the close, and there is never a second error frame.
RawFails == upstream = "open" /\ upstream' = "failed"
ErrorIsLastAndOnly(o, c) ==
    /\ Cardinality(FramesOfType(o, "error")) <= 1
    /\ \A i \in FramesOfType(o, "error") : i = Len(o) /\ c
C6_ErrorOnceThenClosed ==
    [][/\ RawFails =>
            /\ Len(out') = Len(out) + 1
            /\ SubSeq(out', 1, Len(out)) = out
            /\ Last(out').type = "error"
            /\ closed' /\ pc' = "closed"
       /\ ErrorIsLastAndOnly(out', closed')
       /\ closed => (out' = out /\ closed')]_vars

\* C6 witness: the raw stream failed after frames had been enqueued.
C6_Witness ==
    /\ upstream = "failed"
    /\ Len(raw) >= 2
    /\ Len(out) >= 2
    /\ Last(out) = ErrorFrame("overloaded")
    /\ closed

\* C7 (as claimed): an upstream failure before any raw event is yielded is
\* answered with a 500 JSON response, never with a 200 event stream.
C7_SetupFailureIs500 ==
    (upstream = "failed" /\ raw = <<>>) => response = "json500"

\* C8: a body whose `messages` is missing or empty is answered 400, and then
\* no upstream connection is opened and no response stream is created.
C8_EmptyMessagesIs400 ==
    body \in {"missing", "empty"} =>
        /\ response = "json400"
        /\ upstream = "none"
        /\ pc = "idle"
        /\ out = <<>> /\ ~closed

\* C8 witness: a request with an empty `messages` array was answered.
C8_Witness == body = "empty" /\ response = "json400"

\* C9: a content_block_stop on an open tool block whose accumulated string
\* does not parse enqueues tool_complete with { raw: <string> } when the string
\* is non-empty and {} when it is empty, enqueues no error frame, and leaves
\* the loop running with no tool open.
C9_ParseFailureIsAbsorbed ==
    [][(/\ Handles(BlockStop)
        /\ OpenTool(out) > 0
        /\ ~JsonParses(FragmentsSinceStart(raw))) =>
            /\ Enqueues(ToolCompleteFrame(
                   out[OpenTool(out)].name, out[OpenTool(out)].id,
                   IF FragmentsSinceStart(raw) # <<>>
                   THEN RawObject(FragmentsSinceStart(raw))
                   ELSE EmptyObject))
            /\ pc' = "loop" /\ ~closed' /\ upstream' = "open"
            /\ currentToolName' = "" /\ currentToolInput' = <<>>]_vars

\* C9 witness: an unparsable string was wrapped and a later event translated.
C9_Witness ==
    /\ Len(out) >= 3
    /\ out[2].type = "tool_complete"
    /\ out[2].input = RawObject(<<"{">>)
    /\ Last(out).type = "text"
    /\ pc = "loop"

\* C10: while a tool block is open the accumulated string is the partial_json
\* of the input_json_delta events received since its content_block_start, in
\* arrival order; that string is what content_block_stop parses; and an
\* input_json_delta enqueues no frame.
C10_FragmentsAccumulateInOrder ==
    [][/\ OpenTool(out') > 0 => currentToolInput' = FragmentsSinceStart(raw')
       /\ HandlesSome(IsJsonDelta) => out' = out
       /\ (Handles(BlockStop) /\ OpenTool(out) > 0) =>
              Last(out').input = ParsedInput(FragmentsSinceStart(raw))]_vars

\* C10 witness: `{` and ` }` arrived in two deltas and were parsed as {}.
C10_Witness ==
    /\ Len(raw) = 4 /\ Len(out) >= 1
    /\ raw[2] = JsonDelta(<<"{">>)
    /\ raw[3] = JsonDelta(<<WS, "}">>)
    /\ Last(out).type = "tool_complete"
    /\ Last(out).input = EmptyObject

\* C11: a content_block_stop received while no tool block is open (before any
\* tool start, after a text block, after a stop that closed the tool) enqueues
\* no frame and leaves the tool name, id and accumulated input as they were,
\* with the loop still running.
C11_StopWithoutToolIsNoOp ==
    [][(Handles(BlockStop) /\ OpenTool(out) = 0) =>
           /\ out' = out
           /\ currentToolName' = currentToolName
           /\ currentToolId' = currentToolId
           /\ currentToolInput' = currentToolInput
           /\ pc' = pc /\ closed' = closed /\ upstream' = upstream]_vars

\* C11 witness: a text block with a stray input fragment was stopped; nothing
\* was enqueued and the fragment is still held.
C11_Witness ==
    /\ Len(raw) = 3
    /\ raw[1] = BlockStart("text", "", "")
    /\ raw[2] = JsonDelta(<<"{">>)
    /\ raw[3] = BlockStop
    /\ out = <<>>
    /\ currentToolName = "" /\ currentToolInput = <<"{">>

\* C12: when the raw events received are exactly tool start (tool_use, search,
\* t1), one input_json_delta with {"q":"x"}, content_block_stop, text_delta
\* "Found it", message_stop, and the raw stream did not fail, the frames
\* enqueued are exactly tool_start, tool_complete with {q:"x"}, text, done; and
\* when the raw stream has ended the response stream is closed.
ScriptFrames ==
    << ToolStartFrame("search", "t1"),
       ToolCompleteFrame("search", "t1", <<"{", "\"q\":", "\"x\"", "}">>),
       TextFrame("Found it"),
       DoneFrame >>
C12_ScriptYieldsFourFrames ==
    (raw = Script /\ upstream # "failed") =>
        /\ out = ScriptFrames
        /\ upstream = "ended" => (closed /\ pc = "closed")

\* C12 witness: the whole turn was translated and the stream closed.
C12_Witness ==
    /\ raw = Script
    /\ upstream = "ended"
    /\ Len(out) = 4 /\ Last(out) = DoneFrame
    /\ closed

\* C13: frames are enqueued in the order of the raw events that cause them.
\* Every step leaves the frames already enqueued in place and adds at most one
\* frame behind them, and that frame is caused by the raw event received in
\* that very step -- text by a text_delta with that text, tool_start by a named
\* tool start, tool_complete by the content_block_stop (not by a delta), done
\* by message_stop -- or is the error frame of a failing raw stream.
CausedBy(f, ev) ==
    CASE f.type = "text" -> IsTextDelta(ev) /\ f.content = ev.text
      [] f.type = "tool_start" ->
             IsNamedToolStart(ev) /\ f.name = ev.name /\ f.id = ev.id
      [] f.type = "tool_complete" -> ev = BlockStop
      [] f.type = "done" -> ev = MessageStopEv
      [] OTHER -> FALSE
C13_FramesInEventOrder ==
    [][/\ Len(out') \in {Len(out), Len(out) + 1}
       /\ SubSeq(out', 1, Len(out)) = out
       /\ Len(out') = Len(out) + 1 =>
              \/ /\ Len(raw') = Len(raw) + 1
                 /\ CausedBy(Last(out'), Last(raw'))
              \/ /\ raw' = raw
                 /\ Last(out').type = "error"
                 /\ upstream' = "failed"]_vars

\* C13 witness: four frames, each enqueued at its own event; the
\* tool_complete stands after the text that arrived inside the tool block.
C13_Witness ==
    /\ Len(raw) = 4 /\ Len(out) = 4
    /\ out[1].type = "tool_start"
    /\ out[2].type = "text"
    /\ out[3].type = "tool_complete"
    /\ out[4].type = "done"

EntryOf(d, j) == Cardinality({ k \in FramesOfType(d, "tool_start") : k <= j })
CompletesOf(d, j) ==
    { i \in FramesOfType(d, "tool_complete") :
          i > j /\ d[i].name = d[j].name /\ d[i].id = d[j].id }
C15_CompletedToolsShownComplete ==
    /\ Len(currentToolCalls) = Cardinality(FramesOfType(decoded, "tool_start"))
    /\ \A j \in FramesOfType(decoded, "tool_start") :
           LET e == currentToolCalls[EntryOf(decoded, j)]
           IN  /\ e.name = decoded[j].name
               /\ e.id = IF decoded[j].id # "" THEN decoded[j].id
                         ELSE "tool-" \o ToString(EntryOf(decoded, j) - 1)
               /\ (\A i \in FramesOfType(decoded, "tool_complete") : i < j)
                      => e.status = "running"
               /\ CompletesOf(decoded, j) # {} =>
                      /\ e.status = "complete"
                      /\ \E i \in CompletesOf(decoded, j) : e.input = decoded[i].input
    /\ cpc \in {"read", "done"} =>
           Last(messages).toolCalls \in {currentToolCalls, <<>>}

\* C15 witness: a tool block without an id was started and completed, and the
\* message shows its entry `tool-0` complete with the input.
C15_Witness ==
    /\ cpc = "done"
    /\ decoded = << ToolStartFrame("fetch", ""),
                    ToolCompleteFrame("fetch", "", <<"{", "\"q\":", "\"x\"", "}">>) >>
    /\ Last(messages).toolCalls =
           << ToolCall("fetch", "tool-0", "complete", <<"{", "\"q\":", "\"x\"", "}">>) >>

\* C16 (as claimed): an error frame is terminal for the client -- once one has
\* been decoded, the assistant message shows the text of the first error frame
\* and no later frame changes it.
FirstError(d) ==
    CHOOSE i \in FramesOfType(d, "error") :
        \A j \in FramesOfType(d, "error") : i <= j
C16_ErrorIsTerminal ==
    (cpc \in {"read", "done"} /\ FramesOfType(decoded, "error") # {}) =>
        Last(messages) =
            Msg("assistant", <<"Error: ", decoded[FirstError(decoded)].error>>, <<>>)

\* C17: a line that fails to decode is dropped in silence.  A read dispatches
\* exactly the frames whose whole line lies in its chunk, in order; a partial
\* frame, a payload that is not JSON and JSON that is not an object add
\* nothing and change neither the message shown nor the accumulated content
\* and tool calls; the loop stays in its read state with the loading flag set,
\* and the `something went wrong` message is not shown.
LineFrame(line) ==
    IF \E f \in GarbledFrames : line = Prefix \o Stringify(f)
    THEN << CHOOSE f \in GarbledFrames : line = Prefix \o Stringify(f) >>
    ELSE <<>>
FramesIn(chunk) ==
    Concat([i \in 1..Len(Split(chunk)) |-> LineFrame(Split(chunk)[i])])
C17_DecodeFailureIsDropped ==
    [][reads' = reads + 1 =>
          LET chunk == SubSeq(wire, 1, Len(wire) - Len(wire'))
          IN  /\ decoded' = decoded \o FramesIn(chunk)
              /\ FramesIn(chunk) = <<>> =>
                     UNCHANGED <<messages, currentContent, currentToolCalls>>
              /\ cpc' = "read" /\ isLoading'
              /\ Last(messages').content # SorryText]_vars

\* C17 witness: a body of a null line and a text frame was read in two or
\* more chunks; the text frame was decoded and is shown, and nothing else.
C17_Witness ==
    /\ cpc = "done"
    /\ reads >= 2
    /\ sent = Prefix \o <<Sym("null"), NL, NL>> \o Encode(TextFrame("a"))
    /\ decoded = <<TextFrame("a")>>
    /\ Last(messages) = Msg("assistant", <<"a">>, <<>>)

\* C18 (as claimed): the input of every tool_complete frame enqueued is a JSON
\* object, whatever string the fragments accumulated to.
C18_CompleteInputIsObject ==
    \A i \in FramesOfType(out, "tool_complete") : IsObject(out[i].input)

\* C19: a tool start received while a tool block is open overwrites the one
\* slot.  It enqueues a second tool_start and sets name and id to the new
\* block with an empty input; the next content_block_stop enqueues one
\* tool_complete with the name and id of the latest tool_start and the
\* fragments received since that start only; every tool_complete pairs with
\* the latest tool_start before it, so an overwritten start never gets one;
\* and the slot holds the last tool_start left open, or nothing.
PairsWithLatestStart(o) ==
    \A i \in FramesOfType(o, "tool_complete") :
        \E j \in FramesOfType(o, "tool_start") :
            /\ j < i
            /\ o[j].name = o[i].name /\ o[j].id = o[i].id
            /\ \A k \in (j + 1)..(i - 1) :
                   o[k].type \notin {"tool_start", "tool_complete"}
SlotIsOpenStart(o, name, id) ==
    LET open == OpenTool(o)
    IN  IF open > 0
        THEN name = o[open].name /\ id = o[open].id
        ELSE name = "" /\ id = ""
C19_SecondStartOverwrites ==
    [][/\ (HandlesSome(IsNamedToolStart) /\ OpenTool(out) > 0) =>
              /\ Enqueues(ToolStartFrame(Last(raw').name, Last(raw').id))
              /\ currentToolName' = Last(raw').name
              /\ currentToolId' = Last(raw').id
              /\ currentToolInput' = <<>>
       /\ (Handles(BlockStop) /\ OpenTool(out) > 0) =>
              Enqueues(ToolCompleteFrame(
                  out[OpenTool(out)].name, out[OpenTool(out)].id,
                  ParsedInput(FragmentsSinceStart(raw))))
       /\ PairsWithLatestStart(out')
       /\ SlotIsOpenStart(out', currentToolName', currentToolId')]_vars

\* C19 witness: `search` was started and fed `{`, `fetch` was started over
\* it, and the stop completed `fetch` alone, with an empty input.
C19_Witness ==
    /\ Len(raw) = 4
    /\ raw[2] = JsonDelta(<<"{">>)
    /\ out = << ToolStartFrame("search", "t1"),
                ToolStartFrame("fetch", ""),
                ToolCompleteFrame("fetch", "", EmptyObject) >>
    /\ currentToolName = ""

\* C20: a content_block_start of a block that is not a tool block, a
\* tool-type content_block_start without a name, and an event of a type the
\* loop has no branch for each enqueue no frame and leave the tool name, id
\* and accumulated input as they were.
IsIgnored(ev) ==
    \/ IsBlockStart(ev) /\ ~IsToolTypeStart(ev)
    \/ IsToolTypeStart(ev) /\ ev.name = ""
    \/ ev.type \notin {"content_block_start", "content_block_delta",
                       "content_block_stop", "message_stop"}
C20_IgnoredEventsChangeNothing ==
    [][HandlesSome(IsIgnored) =>
           /\ out' = out
           /\ currentToolName' = currentToolName
           /\ currentToolId' = currentToolId
           /\ currentToolInput' = currentToolInput
           /\ pc' = pc /\ closed' = closed]_vars

\* C20 witness: with `search` open and holding `{`, a nameless tool start and
\* an event of another type arrived; the slot and the frames are as before.
C20_Witness ==
    /\ Len(raw) = 4
    /\ raw[2] = JsonDelta(<<"{">>)
    /\ raw[3] = BlockStart("tool_use", "", "t1")
    /\ raw[4] = PingEv
    /\ out = <<ToolStartFrame("search", "t1")>>
    /\ currentToolName = "search" /\ currentToolId = "t1"
    /\ currentToolInput = <<"{">>

\* C21 (as claimed): the accumulated input is emptied at every tool-type
\* content_block_start and after every tool_complete enqueued, and the input
\* of a tool_complete is made of the fragments received since its own
\* tool_start only.
CompleteHoldsOwnFragments ==
    (Handles(BlockStop) /\ OpenTool(out) > 0) =>
        /\ Last(out').type = "tool_complete"
        /\ Last(out').input = ParsedInput(FragmentsSinceStart(raw))
        /\ currentToolInput' = <<>>
C21_ResetAtToolTypeStart ==
    [][/\ HandlesSome(IsToolTypeStart) => currentToolInput' = <<>>
       /\ CompleteHoldsOwnFragments]_vars

\* C21 (amended): the accumulated input is emptied at every tool-type
\* content_block_start that carries a name and after every tool_complete
\* enqueued, and the input of a tool_complete is made of the fragments
\* received since its own tool_start only; fragments received while no tool
\* block is open are in none.
C21_ResetAtNamedToolStart ==
    [][/\ HandlesSome(IsNamedToolStart) => currentToolInput' = <<>>
       /\ CompleteHoldsOwnFragments]_vars

\* C21 witness: `{` arrived before any tool block, then `search` was started,
\* fed ` }` and stopped; its input is the unparsable ` }` alone.
C21_Witness ==
    /\ Len(raw) = 4
    /\ raw[1] = JsonDelta(<<"{">>)
    /\ out = << ToolStartFrame("search", "t1"),
                ToolCompleteFrame("search", "t1", RawObject(<<WS, "}">>)) >>
    /\ currentToolInput = <<>>

\* C22 (as claimed): a response stream that the handler has closed ends with
\* a terminal frame -- the last frame enqueued before controller.close() is
\* done or error, also when the raw stream ended without a message_stop.
C22_ClosedEndsWithTerminalFrame ==
    closed => (Len(out) >= 1 /\ Last(out).type \in {"done", "error"})

\* C23: at most one chat request is in flight and the loading flag clears.
\* The flag is set exactly while a request is in flight; a request starts
\* (the conversation grows by the user message and the placeholder) only from
\* a state with the flag clear and a non-blank input, so a submit while
\* loading or with a blank input starts nothing; and whenever the flag is
\* set it is cleared later, whether the body ends, holds an error frame, the
\* response is not ok, or the fetch or a read throws.
InFlight == cpc \in {"fetch", "read"}
C23_OneRequestAndLoadingClears ==
    /\ [][/\ isLoading' <=> InFlight'
          /\ Len(messages') > Len(messages) =>
                 /\ ~isLoading /\ ~InFlight
                 /\ Trim(input) # ""
                 /\ Len(messages') = Len(messages) + 2]_vars
    /\ (isLoading ~> ~isLoading)

\* C23 witness: the first chat failed, the second received an error frame and
\* its body ended; the flag is clear again.
C23_Witness ==
    /\ Len(messages) = 4
    /\ messages[2].content = SorryText
    /\ messages[4].content = <<"Error: ", "overloaded">>
    /\ cpc = "done"
    /\ ~isLoading

====
